---- MODULE Spec2Model ----
(***************************************************************************)
(* Byte-level model of version_bumper.py: the .res patcher                 *)
(* (ResVersionBumper) driven by ProjectVersionBumper.bump.                 *)
(* Buffers are sequences of bytes (0..255).  Offsets are 0-based as in the *)
(* Python source; At/Slice translate them to TLA+'s 1-based sequences.     *)
(***************************************************************************)
EXTENDS Integers, Sequences, FiniteSets, TLC

\* ------------------------------------------------------------------ bounds
MaxRuns == 2      \* consecutive invocations of the tool on the same project
MaxExtra == 2     \* string entries after FileVersion that embed the version

\* ------------------------------------------------------ input value sets
Majors == {1}
Minors == {2, 6}
Builds == {6, 9, 10}
Releases == {0}
NoBuild == -1                         \* new_build is None (auto increment)
Targets == {NoBuild, 6, 9, 10, 100, 65536}

\* --------------------------------------------------- byte-string helpers
Min(S) == CHOOSE x \in S : \A y \in S : x <= y

Max(S) == CHOOSE x \in S : \A y \in S : x >= y

\* data[a:b]
Slice(d, a, b) == SubSeq(d, a + 1, b)

\* bytearray(n)
Zeros(n) == [i \in 1..n |-> 0]

\* struct.unpack_from('<H', data, i)[0]
U16At(d, i) == d[i + 1] + 256 * d[i + 2]

\* struct.pack_into('<H', data, i, v), for 0 <= v <= 65535
PackU16(d, i, v) == [d EXCEPT ![i + 1] = v % 256, ![i + 2] = v \div 256]

\* data.find(p, start)
Find(d, p, start) ==
  LET M == {i \in start..(Len(d) - Len(p)) : \A j \in 1..Len(p) : d[i + j] = p[j]}
  IN IF M = {} THEN -1 ELSE Min(M)

\* str.encode('utf-16-le') of a sequence of BMP code points
Utf16(s) ==
  [i \in 1..(2 * Len(s)) |->
     IF i % 2 = 1 THEN s[(i + 1) \div 2] % 256 ELSE s[i \div 2] \div 256]

\* str(n) for n >= 0, as a sequence of character codes
RECURSIVE Str(_)
Str(n) == IF n < 10 THEN <<48 + n>> ELSE Str(n \div 10) \o <<48 + (n % 10)>>

\* int(s) for a non-empty string of ASCII digits
RECURSIVE ToInt(_)
ToInt(s) ==
  IF Len(s) = 0 THEN 0
  ELSE 10 * ToInt(SubSeq(s, 1, Len(s) - 1)) + (s[Len(s)] - 48)

Dot == 46

IsDigits(s) == Len(s) > 0 /\ \A i \in 1..Len(s) : s[i] >= 48 /\ s[i] <= 57

\* ------------------------------------------------------------ VersionInfo
VersionInfo(ma, mi, b, r) == [major |-> ma, minor |-> mi, build |-> b, release |-> r]

NoVersion == VersionInfo(-1, -1, -1, -1)

\* VersionInfo.__str__
VersionStr(v) ==
  Str(v.major) \o <<Dot>> \o Str(v.minor) \o <<Dot>> \o Str(v.build) \o <<Dot>> \o Str(v.release)

\* VersionInfo.from_string: exactly four dot-separated integers, else ValueError
FromString(s) ==
  LET dots == {i \in 1..Len(s) : s[i] = Dot}
  IN IF Cardinality(dots) # 3 THEN [ok |-> FALSE, v |-> NoVersion]
     ELSE LET d1 == Min(dots)
              d3 == Max(dots)
              d2 == CHOOSE i \in dots : i # d1 /\ i # d3
              p1 == SubSeq(s, 1, d1 - 1)
              p2 == SubSeq(s, d1 + 1, d2 - 1)
              p3 == SubSeq(s, d2 + 1, d3 - 1)
              p4 == SubSeq(s, d3 + 1, Len(s))
          IN IF IsDigits(p1) /\ IsDigits(p2) /\ IsDigits(p3) /\ IsDigits(p4)
             THEN [ok |-> TRUE, v |-> VersionInfo(ToInt(p1), ToInt(p2), ToInt(p3), ToInt(p4))]
             ELSE [ok |-> FALSE, v |-> NoVersion]

\* ------------------------------------------------------------- constants
\* ResVersionBumper.VS_FFI_SIGNATURE
VS_FFI_SIGNATURE == <<189, 4, 239, 254>>

KeyFileVersion == <<70, 105, 108, 101, 86, 101, 114, 115, 105, 111, 110>>

\* "FileVersion".encode('utf-16-le')
file_version_unicode == Utf16(KeyFileVersion)

\* ------------------------------------------------- well-formed .res inputs
\* The layout find_binary_version's docstring describes and the fixed
\* offsets of _update_length_fields assume: an empty 32-byte resource
\* header, the RT_VERSION resource header (DataSize at 0x20), VS_VERSIONINFO
\* at 0x40 with VS_FIXEDFILEINFO at 0x68, StringFileInfo at 0x9C, StringTable
\* at 0xC0, the FileVersion entry at 0x15C, then VarFileInfo.
U16LE(n) == <<n % 256, n \div 256>>

U32LE(n) == <<n % 256, (n \div 256) % 256, (n \div 65536) % 256, n \div 16777216>>

Pad4(b) == b \o Zeros((4 - (Len(b) % 4)) % 4)

\* a String entry: wLength, wValueLength (characters), wType, key, padding, value
StringEntry(key, val) ==
  LET k == Utf16(key) \o <<0, 0>>
      padk == (4 - ((6 + Len(k)) % 4)) % 4
      v == Utf16(val) \o <<0, 0>>
  IN U16LE(6 + Len(k) + padk + Len(v)) \o U16LE(Len(val) + 1) \o U16LE(1)
       \o k \o Zeros(padk) \o v

KeyCompanyName == <<67, 111, 109, 112, 97, 110, 121, 78, 97, 109, 101>>

KeyVarFileInfo == <<86, 97, 114, 70, 105, 108, 101, 73, 110, 102, 111>>

\* keys of the entries after FileVersion whose value is the full version
ExtraKey(i) ==
  CASE i = 1 -> <<80, 114, 111, 100, 117, 99, 116, 86, 101, 114, 115, 105, 111, 110>>
    [] i = 2 -> <<73, 110, 116, 101, 114, 110, 97, 108, 78, 97, 109, 101>>
    [] i = 3 -> <<67, 111, 109, 109, 101, 110, 116, 115>>
    [] OTHER -> <<76, 101, 103, 97, 108, 67, 111, 112, 121, 114, 105, 103, 104, 116>>

RECURSIVE ExtraEntries(_, _)
ExtraEntries(v, n) ==
  IF n = 0 THEN <<>>
  ELSE ExtraEntries(v, n - 1) \o Pad4(StringEntry(ExtraKey(n), VersionStr(v)))

FixedFileInfo(v, sig) ==
  (IF sig THEN VS_FFI_SIGNATURE ELSE Zeros(4)) \o U32LE(65536)
    \o U16LE(v.minor) \o U16LE(v.major) \o U16LE(v.release) \o U16LE(v.build)
    \o U16LE(0) \o U16LE(1) \o U16LE(0) \o U16LE(0)
    \o U32LE(63) \o U32LE(0) \o U32LE(4) \o U32LE(1) \o U32LE(0) \o U32LE(0) \o U32LE(0)

VarFileInfo ==
  LET var == Pad4(U16LE(36) \o U16LE(4) \o U16LE(0)
                   \o Utf16(<<84, 114, 97, 110, 115, 108, 97, 116, 105, 111, 110>>) \o <<0, 0>>)
               \o U16LE(2052) \o U16LE(1200)
  IN Pad4(U16LE(32 + Len(var)) \o U16LE(0) \o U16LE(1) \o Utf16(KeyVarFileInfo) \o <<0, 0>>) \o var

\* marker = FALSE spells the key "FileVersioX"; fvtext is the FileVersion value;
\* nfill is the length of the CompanyName value (49 puts FileVersion at 0x15C)
BuildResFill(v, fvtext, nextra, sig, marker, nfill) ==
  LET fvkey == IF marker THEN KeyFileVersion
               ELSE SubSeq(KeyFileVersion, 1, 10) \o <<88>>
      ents == Pad4(StringEntry(KeyCompanyName, [i \in 1..nfill |-> 65]))
                \o Pad4(StringEntry(fvkey, fvtext))
                \o ExtraEntries(v, nextra)
      st == U16LE(24 + Len(ents)) \o U16LE(0) \o U16LE(1)
              \o Utf16(<<48, 56, 48, 52, 48, 52, 66, 48>>) \o <<0, 0>> \o ents
      sfi == U16LE(36 + Len(st)) \o U16LE(0) \o U16LE(1)
               \o Utf16(<<83, 116, 114, 105, 110, 103, 70, 105, 108, 101, 73, 110, 102, 111>>)
               \o <<0, 0>> \o st
      body == Pad4(U16LE(0) \o U16LE(52) \o U16LE(0)
                     \o Utf16(<<86, 83, 95, 86, 69, 82, 83, 73, 79, 78, 95, 73, 78, 70, 79>>)
                     \o <<0, 0>>)
                \o FixedFileInfo(v, sig) \o sfi \o VarFileInfo
      h0 == U32LE(0) \o U32LE(32) \o <<255, 255, 0, 0, 255, 255, 0, 0>> \o Zeros(16)
      h1 == U32LE(Len(body)) \o U32LE(32) \o <<255, 255, 16, 0, 255, 255, 1, 0>>
              \o U32LE(0) \o U16LE(0) \o U16LE(2052) \o U32LE(0) \o U32LE(0)
  IN h0 \o h1 \o U16LE(Len(body)) \o Slice(body, 2, Len(body))

BuildResWith(v, fvtext, nextra, sig, marker) ==
  BuildResFill(v, fvtext, nextra, sig, marker, 49)

BuildRes(v, nextra, sig, marker) == BuildResWith(v, VersionStr(v), nextra, sig, marker)

\* ----------------------------------------------------------- .dproj inputs
TagOpen == <<60, 86, 101, 114, 73, 110, 102, 111, 95, 82, 101, 108, 101, 97, 115, 101, 62>>

TagClose == <<60, 47, 86, 101, 114, 73, 110, 102, 111, 95, 82, 101, 108, 101, 97, 115, 101, 62>>

FileVersionEq == KeyFileVersion \o <<61>>

\* "<VerInfo_Release>b</VerInfo_Release>\nFileVersion=ma.mi.b.r;"
BuildDproj(v) ==
  TagOpen \o Str(v.build) \o TagClose \o <<10>> \o FileVersionEq \o VersionStr(v) \o <<59>>

\* ------------------------------------------------------------- projects
GoodVersions ==
  {VersionInfo(ma, mi, b, r) : ma \in Majors, mi \in Minors, b \in Builds, r \in Releases}

\* a project directory: the bytes of its .res and the text of its .dproj
Project(res, dproj) == [res |-> res, dproj |-> dproj]

Projects ==
  {Project(BuildRes(v, n, TRUE, TRUE), BuildDproj(v)) : v \in GoodVersions, n \in 0..MaxExtra}
  \cup {Project(BuildRes(VersionInfo(1, 2, 9, 0), 1, TRUE, TRUE), BuildDproj(VersionInfo(1, 2, 8, 0))),
        Project(BuildRes(VersionInfo(1, 2, 9, 0), 0, TRUE, TRUE), BuildDproj(VersionInfo(1, 3, 9, 0))),
        Project(BuildRes(VersionInfo(1, 2, 9, 0), 1, FALSE, TRUE), BuildDproj(VersionInfo(1, 2, 9, 0))),
        Project(BuildRes(VersionInfo(1, 2, 9, 0), 1, TRUE, FALSE), BuildDproj(VersionInfo(1, 2, 9, 0))),
        Project(BuildRes(VersionInfo(1, 2, 9, 0), 1, FALSE, FALSE), BuildDproj(VersionInfo(1, 2, 9, 0))),
        Project(BuildResWith(VersionInfo(1, 2, 9, 0), <<49, 46, 50, 46, 57>>, 0, TRUE, TRUE),
                BuildDproj(VersionInfo(1, 2, 9, 0))),
        Project(BuildRes(VersionInfo(1, 2, 9, 0), 0, TRUE, TRUE),
                FileVersionEq \o VersionStr(VersionInfo(1, 2, 9, 0))),
        Project(BuildRes(VersionInfo(1, 2, 9, 0), 0, TRUE, TRUE),
                TagOpen \o Str(9) \o TagClose),
        Project(BuildRes(VersionInfo(1, 2, 9, 0), 0, TRUE, TRUE), <<>>),
        Project(BuildRes(VersionInfo(1, 2, 65535, 0), 0, TRUE, TRUE),
                BuildDproj(VersionInfo(1, 2, 65535, 0))),
        Project(BuildResFill(VersionInfo(1, 2, 9, 0), VersionStr(VersionInfo(1, 2, 9, 0)),
                             0, TRUE, TRUE, 47),
                BuildDproj(VersionInfo(1, 2, 9, 0)))}

\* ---------------------------------------------------------------- analysis
\* find_binary_version: the version read from VS_FIXEDFILEINFO at signature
\* position pos
BinaryVersionAt(d, pos) ==
  LET ms_lo == U16At(d, pos + 8)
      ms_hi == U16At(d, pos + 10)
      ls_lo == U16At(d, pos + 12)
      ls_hi == U16At(d, pos + 14)
  IN VersionInfo(ms_hi, ms_lo, ls_hi, ls_lo)

\* find_string_version: skip the padding bytes after the key's terminator
RECURSIVE SkipZeros(_, _)
SkipZeros(d, search_start) ==
  IF search_start < Len(d) /\ d[search_start + 1] = 0
  THEN SkipZeros(d, search_start + 1)
  ELSE search_start

\* find_string_version: the UTF-16 characters from i up to a zero code unit
RECURSIVE ReadChars(_, _)
ReadChars(d, i) ==
  IF i < Len(d) - 1 /\ U16At(d, i) # 0
  THEN <<U16At(d, i)>> \o ReadChars(d, i + 2)
  ELSE <<>>

\* mutant of FindStringVersion: the "pos == -1" test is missing
FindStringVersionUnchecked(d) ==
  LET pos == Find(d, file_version_unicode, 0)
      search_start == SkipZeros(d, pos + Len(file_version_unicode) + 2)
  IN [found |-> TRUE, offset |-> search_start, text |-> ReadChars(d, search_start)]

\* find_string_version: found (marker present), the value's offset and text
FindStringVersion(d) ==
  LET pos == Find(d, file_version_unicode, 0)
      search_start == SkipZeros(d, pos + Len(file_version_unicode) + 2)
  IN IF pos = -1 THEN [found |-> FALSE, offset |-> -1, text |-> <<>>]
     ELSE [found |-> TRUE, offset |-> search_start, text |-> ReadChars(d, search_start)]

\* ---------------------------------------------------------------- patching
\* ModificationRecord (old and new values kept as numbers)
ModificationRecord(loc, desc, old, new) ==
  [location |-> loc, type_desc |-> desc, old_value |-> old, new_value |-> new]

\* the dot-counting scan shared by both string patchers: offset of the
\* build digits (after the second dot), -1 when the text ends first
RECURSIVE BuildStrOffset(_, _, _)
BuildStrOffset(d, i, dot_count) ==
  IF ~(i < Len(d) - 1) THEN -1
  ELSE IF U16At(d, i) = 0 THEN -1
  ELSE IF U16At(d, i) = Dot
       THEN IF dot_count + 1 = 2 THEN i + 2 ELSE BuildStrOffset(d, i + 2, dot_count + 1)
       ELSE BuildStrOffset(d, i + 2, dot_count)

\* _update_string_version_diff_length: end of the build digits
RECURSIVE BuildEndOffset(_, _)
BuildEndOffset(d, build_end_offset) ==
  IF build_end_offset < Len(d) - 1
       /\ U16At(d, build_end_offset) # Dot /\ U16At(d, build_end_offset) # 0
  THEN BuildEndOffset(d, build_end_offset + 2)
  ELSE build_end_offset

\* for j, char in enumerate(s): struct.pack_into('<H', data, off + j * 2, ord(char))
RECURSIVE WriteChars(_, _, _)
WriteChars(d, off, s) ==
  IF Len(s) = 0 THEN d
  ELSE WriteChars(PackU16(d, off, s[1]), off + 2, Tail(s))

\* mutant of Overwrite: the replacement lands one code unit too far
OverwriteShifted(d, pos, bytes) ==
  [i \in 1..Len(d) |-> IF i > pos + 2 /\ i <= pos + 2 + Len(bytes) THEN bytes[i - pos - 2] ELSE d[i]]

\* for i, byte in enumerate(new_pattern): data[pos + i] = byte
Overwrite(d, pos, bytes) ==
  [i \in 1..Len(d) |-> IF i > pos /\ i <= pos + Len(bytes) THEN bytes[i - pos] ELSE d[i]]

\* _update_all_version_strings: replace every ".old." by ".new." (same length)
RECURSIVE ReplaceFrom(_, _, _, _)
ReplaceFrom(d, old_pattern, new_pattern, pos) ==
  LET p == Find(d, old_pattern, pos)
  IN IF p = -1 THEN d
     ELSE ReplaceFrom(Overwrite(d, p, new_pattern), old_pattern, new_pattern,
                      p + Len(old_pattern))

UpdateAllVersionStrings(d, old_build, new_build) ==
  ReplaceFrom(d, Utf16(<<Dot>> \o old_build \o <<Dot>>),
              Utf16(<<Dot>> \o new_build \o <<Dot>>), 0)

\* _update_string_version_same_length
UpdateStringVersionSameLength(d, mods, fvs_offset, old_build_str, new_build_str) ==
  LET build_str_offset == BuildStrOffset(d, fvs_offset, 0)
      d1 == WriteChars(d, build_str_offset, new_build_str)
      rec == ModificationRecord(build_str_offset, "FileVersion string (Build)",
                                ToInt(old_build_str), ToInt(new_build_str))
  IN IF build_str_offset = -1 THEN [ok |-> FALSE, data |-> d, mods |-> mods]
     ELSE [ok |-> TRUE,
           data |-> UpdateAllVersionStrings(d1, old_build_str, new_build_str),
           mods |-> Append(mods, rec)]

\* fixed offsets of the length fields, _update_length_fields
resource_size_offsets == <<32, 64>>

sfi_offset == 156

st_offset == 192

fv_wLength_offset == 348

fv_wValueLength_offset == 350

\* one "if offset < len(self.data) - 2: read, add, write back, record" step
AdjustField(st, offset, delta, desc) ==
  IF offset < Len(st.data) - 2
  THEN [data |-> PackU16(st.data, offset, U16At(st.data, offset) + delta),
        mods |-> Append(st.mods, ModificationRecord(offset, desc, U16At(st.data, offset),
                                                    U16At(st.data, offset) + delta))]
  ELSE st

\* _update_length_fields (fv_entry_offset is accepted and never used)
UpdateLengthFields(d, mods, byte_diff, aligned_byte_diff, fv_entry_offset) ==
  LET s0 == [data |-> d, mods |-> mods]
      s1 == AdjustField(s0, resource_size_offsets[1], aligned_byte_diff, "resource DataSize")
      s2 == AdjustField(s1, resource_size_offsets[2], aligned_byte_diff, "resource DataSize")
      s3 == AdjustField(s2, sfi_offset, aligned_byte_diff, "StringFileInfo wLength")
      s4 == AdjustField(s3, st_offset, aligned_byte_diff, "StringTable wLength")
      s5 == AdjustField(s4, fv_wLength_offset, byte_diff, "FileVersion wLength")
      s6 == AdjustField(s5, fv_wValueLength_offset, byte_diff \div 2, "FileVersion wValueLength")
  IN s6

\* positions of old_pattern, left to right, each search resuming after the match
RECURSIVE Positions(_, _, _)
Positions(d, old_pattern, pos) ==
  LET p == Find(d, old_pattern, pos)
  IN IF p = -1 THEN <<>>
     ELSE <<p>> \o Positions(d, old_pattern, p + Len(old_pattern))

\* for pos in reversed(positions): data = data[:pos] + new + data[pos + len(old):]
RECURSIVE ReplaceBackToFront(_, _, _, _)
ReplaceBackToFront(d, positions, old_len, new_pattern) ==
  IF Len(positions) = 0 THEN d
  ELSE LET pos == positions[Len(positions)]
       IN ReplaceBackToFront(Slice(d, 0, pos) \o new_pattern \o Slice(d, pos + old_len, Len(d)),
                             SubSeq(positions, 1, Len(positions) - 1), old_len, new_pattern)

\* positions[1:]
SkipFirst(positions) == IF Len(positions) = 0 THEN <<>> ELSE Tail(positions)

\* _update_all_version_strings_with_length_change
UpdateAllVersionStringsWithLengthChange(d, cur, new, old_build, new_build) ==
  LET old_version == Str(cur.major) \o <<Dot>> \o Str(cur.minor) \o <<Dot>> \o old_build
                       \o <<Dot>> \o Str(cur.release)
      new_version == Str(new.major) \o <<Dot>> \o Str(new.minor) \o <<Dot>> \o new_build
                       \o <<Dot>> \o Str(new.release)
      old_pattern == Utf16(old_version)
      new_pattern == Utf16(new_version)
      positions == Positions(d, old_pattern, 0)
  IN ReplaceBackToFront(d, SkipFirst(positions), Len(old_pattern), new_pattern)

\* mutant of AlignedByteDiff: no rounding up to the 4-byte boundary
AlignedByteDiffUnrounded(byte_diff) == byte_diff

\* aligned_byte_diff = ((byte_diff + 3) // 4) * 4
AlignedByteDiff(byte_diff) == ((byte_diff + 3) \div 4) * 4

\* _update_string_version_diff_length
UpdateStringVersionDiffLength(d, mods, fvs_offset, cur, new, old_build_str, new_build_str, len_diff) ==
  LET byte_diff == len_diff * 2
      aligned_byte_diff == AlignedByteDiff(byte_diff)
      fv_key_pos == Find(d, file_version_unicode, 0)
      fv_entry_offset == fv_key_pos - 6
      fv_wLength == U16At(d, fv_entry_offset)
      build_str_offset == BuildStrOffset(d, fvs_offset, 0)
      build_end_offset == BuildEndOffset(d, build_str_offset)
      fv_entry_end == fv_entry_offset + fv_wLength
      new_build_bytes == Utf16(new_build_str)
      d1 == Slice(d, 0, build_str_offset) \o new_build_bytes \o Slice(d, build_end_offset, Len(d))
      mods1 == Append(mods, ModificationRecord(build_str_offset, "FileVersion string (Build)",
                                               ToInt(old_build_str), ToInt(new_build_str)))
      padding_needed == aligned_byte_diff - byte_diff
      string_end_offset == fv_entry_end + byte_diff
      d2 == IF padding_needed > 0
            THEN Slice(d1, 0, string_end_offset) \o Zeros(padding_needed)
                   \o Slice(d1, string_end_offset, Len(d1))
            ELSE d1
      s3 == UpdateLengthFields(d2, mods1, byte_diff, aligned_byte_diff, fv_entry_offset)
  IN IF fv_key_pos = -1 \/ build_str_offset = -1
     THEN [ok |-> FALSE, data |-> d, mods |-> mods]
     ELSE [ok |-> TRUE,
           data |-> UpdateAllVersionStringsWithLengthChange(s3.data, cur, new,
                                                            old_build_str, new_build_str),
           mods |-> s3.mods]

\* update_string_version: dispatch on the digit-count difference
UpdateStringVersion(d, mods, fvs_offset, cur, new) ==
  LET old_build_str == Str(cur.build)
      new_build_str == Str(new.build)
      len_diff == Len(new_build_str) - Len(old_build_str)
  IN IF len_diff = 0
     THEN UpdateStringVersionSameLength(d, mods, fvs_offset, old_build_str, new_build_str)
     ELSE UpdateStringVersionDiffLength(d, mods, fvs_offset, cur, new,
                                        old_build_str, new_build_str, len_diff)

\* update_binary_version: the write of the build half-word and its record
UpdateBinaryVersion(d, mods, file_version_ls_offset, new_build) ==
  LET build_offset == file_version_ls_offset + 2
  IN [data |-> PackU16(d, build_offset, new_build),
      mods |-> Append(mods, ModificationRecord(build_offset, "FileVersionLS.Build (binary)",
                                               U16At(d, build_offset), new_build))]

\* ------------------------------------------------------ DprojVersionBumper
\* the longest run of ASCII digits of s starting at index i (1-based)
RECURSIVE DigitRun(_, _)
DigitRun(s, i) ==
  IF i <= Len(s) /\ s[i] >= 48 /\ s[i] <= 57 THEN <<s[i]>> \o DigitRun(s, i + 1) ELSE <<>>

\* s has the literal p at index i (1-based)
HasAt(s, p, i) == i + Len(p) - 1 <= Len(s) /\ \A j \in 1..Len(p) : s[i + j - 1] = p[j]

\* re.search(r'<VerInfo_Release>(\d+)</VerInfo_Release>', content) is not None
ReleaseMatch(s) ==
  \E i \in 1..Len(s) :
    /\ HasAt(s, TagOpen, i)
    /\ Len(DigitRun(s, i + Len(TagOpen))) > 0
    /\ HasAt(s, TagClose, i + Len(TagOpen) + Len(DigitRun(s, i + Len(TagOpen))))

\* the text \d+\.\d+\.\d+\.\d+ matches at index i, <<>> when it does not
DottedAt(s, i) ==
  LET a == DigitRun(s, i)
      ib == i + Len(a) + 1
      b == DigitRun(s, ib)
      ic == ib + Len(b) + 1
      c == DigitRun(s, ic)
      id == ic + Len(c) + 1
      d == DigitRun(s, id)
  IN IF /\ Len(a) > 0 /\ HasAt(s, <<Dot>>, ib - 1)
        /\ Len(b) > 0 /\ HasAt(s, <<Dot>>, ic - 1)
        /\ Len(c) > 0 /\ HasAt(s, <<Dot>>, id - 1)
        /\ Len(d) > 0
     THEN a \o <<Dot>> \o b \o <<Dot>> \o c \o <<Dot>> \o d
     ELSE <<>>

\* re.search(r'FileVersion=(\d+\.\d+\.\d+\.\d+)', content): group(1), <<>> for no match
FileVersionMatch(s) ==
  LET M == {i \in 1..Len(s) :
              HasAt(s, FileVersionEq, i) /\ Len(DottedAt(s, i + Len(FileVersionEq))) > 0}
  IN IF M = {} THEN <<>> ELSE DottedAt(s, Min(M) + Len(FileVersionEq))

\* str.replace(old, new)
RECURSIVE StrReplace(_, _, _)
StrReplace(s, old, new) ==
  LET p == Find(s, old, 0)
  IN IF p = -1 THEN s
     ELSE Slice(s, 0, p) \o new \o StrReplace(Slice(s, p + Len(old), Len(s)), old, new)

\* DprojVersionBumper.update
DprojUpdateContent(s, mods, cur, new_build) ==
  LET old_build == cur.build
      old_pattern == TagOpen \o Str(old_build) \o TagClose
      new_pattern == TagOpen \o Str(new_build) \o TagClose
      s1 == IF Find(s, old_pattern, 0) # -1 THEN StrReplace(s, old_pattern, new_pattern) ELSE s
      m1 == IF Find(s, old_pattern, 0) # -1
            THEN Append(mods, ModificationRecord(-1, "VerInfo_Release", old_build, new_build))
            ELSE mods
      old_ver_pattern == FileVersionEq \o VersionStr(cur)
      new_ver_pattern == FileVersionEq \o VersionStr([cur EXCEPT !.build = new_build])
      s2 == IF Find(s1, old_ver_pattern, 0) # -1
            THEN StrReplace(s1, old_ver_pattern, new_ver_pattern) ELSE s1
      m2 == IF Find(s1, old_ver_pattern, 0) # -1
            THEN Append(m1, ModificationRecord(-2, "VerInfo_Keys FileVersion", old_build, new_build))
            ELSE m1
  IN [content |-> s2, mods |-> m2]

\* ------------------------------------------------------------------- state
VARIABLES
  res_disk,          \* bytes of the .res file on disk
  res_bak,           \* the .res.bak file: [exists, bytes]
  dproj_disk,        \* text of the .dproj file on disk
  dproj_bak,         \* the .dproj.bak file: [exists, bytes]
  pc,                \* position inside ProjectVersionBumper.bump
  result,            \* how the last invocation ended: none / ok / fail / crash
  err,               \* the error printed or raised by the last invocation
  new_build,         \* --build argument (NoBuild when absent)
  dry_run,           \* --dry-run argument
  warned,            \* the version-mismatch warning was printed
  data,              \* ResVersionBumper.data
  ffi_offset,
  file_version_ls_offset,
  product_version_ls_offset,
  file_version_string_offset,
  current_version,   \* ResVersionBumper.current_version
  new_version,       \* ProjectVersionBumper.new_version
  modifications,     \* ResVersionBumper.modifications
  content,           \* DprojVersionBumper.content
  dproj_current_version,
  dproj_modifications,
  saves,             \* number of invocations that have overwritten the files
  prev,              \* the previous saving invocation: its input and builds
  at_start           \* the files as the current invocation found them

args == <<new_build, dry_run>>

disk == <<res_disk, res_bak, dproj_disk, dproj_bak>>

res_state == <<data, ffi_offset, file_version_ls_offset, product_version_ls_offset,
               file_version_string_offset, current_version, modifications>>

dproj_state == <<content, dproj_current_version, dproj_modifications>>

vars == <<res_disk, res_bak, dproj_disk, dproj_bak, pc, result, err, new_build, dry_run,
          warned, data, ffi_offset, file_version_ls_offset, product_version_ls_offset,
          file_version_string_offset, current_version, new_version, modifications,
          content, dproj_current_version, dproj_modifications, saves, prev, at_start>>

NoFile == [exists |-> FALSE, bytes |-> <<>>]

NoPrev == [valid |-> FALSE, input |-> <<>>, old |-> -1, new |-> -1]

\* ResVersionBumper.__init__ and DprojVersionBumper.__init__
Fresh ==
  /\ data = <<>>
  /\ ffi_offset = -1
  /\ file_version_ls_offset = -1
  /\ product_version_ls_offset = -1
  /\ file_version_string_offset = -1
  /\ current_version = NoVersion
  /\ new_version = NoVersion
  /\ modifications = <<>>
  /\ content = <<>>
  /\ dproj_current_version = NoVersion
  /\ dproj_modifications = <<>>

Init ==
  /\ \E p \in Projects : res_disk = p.res /\ dproj_disk = p.dproj
  /\ res_bak = NoFile
  /\ dproj_bak = NoFile
  /\ pc = "idle"
  /\ result = "none"
  /\ err = "none"
  /\ new_build = NoBuild
  /\ dry_run = FALSE
  /\ warned = FALSE
  /\ Fresh
  /\ saves = 0
  /\ prev = NoPrev
  /\ at_start = [res |-> res_disk, res_bak |-> res_bak, dproj |-> dproj_disk,
                 dproj_bak |-> dproj_bak]

\* ------------------------------------------------------------------ actions
\* main: a new invocation; bump creates both bumpers afresh
StartRun(nb, dr) ==
  /\ pc \in {"idle", "done"}
  /\ saves < MaxRuns
  /\ new_build' = nb
  /\ dry_run' = dr
  /\ warned' = FALSE
  /\ result' = "none"
  /\ err' = "none"
  /\ data' = <<>>
  /\ ffi_offset' = -1
  /\ file_version_ls_offset' = -1
  /\ product_version_ls_offset' = -1
  /\ file_version_string_offset' = -1
  /\ current_version' = NoVersion
  /\ new_version' = NoVersion
  /\ modifications' = <<>>
  /\ content' = <<>>
  /\ dproj_current_version' = NoVersion
  /\ dproj_modifications' = <<>>
  /\ pc' = "res_load"
  /\ at_start' = [res |-> res_disk, res_bak |-> res_bak, dproj |-> dproj_disk,
               dproj_bak |-> dproj_bak]
  /\ UNCHANGED <<disk, saves, prev>>

\* ResVersionBumper.load
ResLoad ==
  /\ pc = "res_load"
  /\ data' = res_disk
  /\ pc' = "find_binary"
  /\ UNCHANGED <<disk, result, err, args, warned, ffi_offset, file_version_ls_offset,
                 product_version_ls_offset, file_version_string_offset, current_version,
                 new_version, modifications, dproj_state, saves, prev, at_start>>

\* ResVersionBumper.find_binary_version
FindBinaryVersion ==
  /\ pc = "find_binary"
  /\ LET pos == Find(data, VS_FFI_SIGNATURE, 0)
     IN IF pos = -1
        THEN /\ err' = "SignatureNotFound"
             /\ result' = "fail"
             /\ pc' = "done"
             /\ UNCHANGED <<ffi_offset, file_version_ls_offset, product_version_ls_offset>>
        ELSE /\ ffi_offset' = pos
             /\ file_version_ls_offset' = pos + 4 + 4 + 4
             /\ product_version_ls_offset' = pos + 4 + 4 + 4 + 4 + 4
             /\ pc' = "find_string"
             /\ UNCHANGED <<err, result>>
  /\ UNCHANGED <<disk, args, warned, data, file_version_string_offset, current_version,
                 new_version, modifications, dproj_state, saves, prev, at_start>>

\* ResVersionBumper.find_string_version
FindStringVersionStep ==
  /\ pc = "find_string"
  /\ LET fs == FindStringVersion(data)
         parsed == FromString(fs.text)
     IN IF ~fs.found
        THEN /\ err' = "MarkerNotFound"
             /\ result' = "fail"
             /\ pc' = "done"
             /\ UNCHANGED <<file_version_string_offset, current_version>>
        ELSE IF ~parsed.ok
        THEN /\ err' = "MalformedVersion"
             /\ result' = "crash"
             /\ pc' = "done"
             /\ file_version_string_offset' = fs.offset
             /\ UNCHANGED current_version
        ELSE /\ file_version_string_offset' = fs.offset
             /\ current_version' = parsed.v
             /\ pc' = "dproj_analyze"
             /\ UNCHANGED <<err, result>>
  /\ UNCHANGED <<disk, args, warned, data, ffi_offset, file_version_ls_offset,
                 product_version_ls_offset, new_version, modifications, dproj_state,
                 saves, prev, at_start>>

\* DprojVersionBumper.analyze (with load)
DprojAnalyze ==
  /\ pc = "dproj_analyze"
  /\ content' = dproj_disk
  /\ IF Len(dproj_disk) = 0
     THEN /\ err' = "DprojUnreadable"
          /\ result' = "fail"
          /\ pc' = "done"
          /\ UNCHANGED dproj_current_version
     ELSE IF ~ReleaseMatch(dproj_disk)
     THEN /\ err' = "DprojReleaseNotFound"
          /\ result' = "fail"
          /\ pc' = "done"
          /\ UNCHANGED dproj_current_version
     ELSE IF Len(FileVersionMatch(dproj_disk)) = 0
     THEN /\ err' = "DprojFileVersionNotFound"
          /\ result' = "fail"
          /\ pc' = "done"
          /\ UNCHANGED dproj_current_version
     ELSE /\ dproj_current_version' = FromString(FileVersionMatch(dproj_disk)).v
          /\ pc' = "calc"
          /\ UNCHANGED <<err, result>>
  /\ UNCHANGED <<disk, args, warned, res_state, new_version, dproj_modifications, saves, prev, at_start>>

\* step 6 of bump without the --build argument: always the next build
CalcNewVersionAlwaysIncrement ==
  /\ pc = "calc"
  /\ warned' = (current_version.build # dproj_current_version.build)
  /\ new_version' = [current_version EXCEPT !.build = current_version.build + 1]
  /\ pc' = "update_binary"
  /\ UNCHANGED <<disk, result, err, args, res_state, dproj_state, saves, prev, at_start>>

\* ProjectVersionBumper.bump, steps 5 and 6: consistency warning, new version
CalcNewVersion ==
  /\ pc = "calc"
  /\ warned' = (current_version.build # dproj_current_version.build)
  /\ new_version' = [current_version EXCEPT
                       !.build = IF new_build = NoBuild THEN current_version.build + 1
                                 ELSE new_build]
  /\ pc' = "update_binary"
  /\ UNCHANGED <<disk, result, err, args, res_state, dproj_state, saves, prev, at_start>>

\* update_binary_version without the 16-bit range test of struct.pack_into
UpdateBinaryVersionStepNoRange ==
  /\ pc = "update_binary"
  /\ LET r == UpdateBinaryVersion(data, modifications, file_version_ls_offset,
                                  new_version.build % 65536)
     IN /\ data' = r.data
        /\ modifications' = r.mods
        /\ pc' = "update_string"
        /\ UNCHANGED <<err, result>>
  /\ UNCHANGED <<disk, args, warned, ffi_offset, file_version_ls_offset,
                 product_version_ls_offset, file_version_string_offset, current_version,
                 new_version, dproj_state, saves, prev, at_start>>

\* ResVersionBumper.update_binary_version; struct.error when the build
\* does not fit the 16-bit field
UpdateBinaryVersionStep ==
  /\ pc = "update_binary"
  /\ IF new_version.build > 65535
     THEN /\ err' = "OutOfRange"
          /\ result' = "crash"
          /\ pc' = "done"
          /\ UNCHANGED <<data, modifications>>
     ELSE LET r == UpdateBinaryVersion(data, modifications, file_version_ls_offset,
                                       new_version.build)
          IN /\ data' = r.data
             /\ modifications' = r.mods
             /\ pc' = "update_string"
             /\ UNCHANGED <<err, result>>
  /\ UNCHANGED <<disk, args, warned, ffi_offset, file_version_ls_offset,
                 product_version_ls_offset, file_version_string_offset, current_version,
                 new_version, dproj_state, saves, prev, at_start>>

\* ResVersionBumper.update_string_version (its return value is ignored by bump)
UpdateStringVersionStep ==
  /\ pc = "update_string"
  /\ LET r == UpdateStringVersion(data, modifications, file_version_string_offset,
                                  current_version, new_version)
     IN /\ data' = r.data
        /\ modifications' = r.mods
  /\ pc' = "dproj_update"
  /\ UNCHANGED <<disk, result, err, args, warned, ffi_offset, file_version_ls_offset,
                 product_version_ls_offset, file_version_string_offset, current_version,
                 new_version, dproj_state, saves, prev, at_start>>

\* bump without the dry_run test of step 9: the save steps always follow
DprojUpdateAlwaysSaving ==
  /\ pc = "dproj_update"
  /\ LET r == DprojUpdateContent(content, dproj_modifications, dproj_current_version,
                                 new_version.build)
     IN /\ content' = r.content
        /\ dproj_modifications' = r.mods
  /\ pc' = "res_backup" /\ UNCHANGED result
  /\ UNCHANGED <<disk, err, args, warned, res_state, new_version, dproj_current_version,
                 saves, prev, at_start>>

\* DprojVersionBumper.update, then steps 8 and 9 of bump up to the dry_run test
DprojUpdate ==
  /\ pc = "dproj_update"
  /\ LET r == DprojUpdateContent(content, dproj_modifications, dproj_current_version,
                                 new_version.build)
     IN /\ content' = r.content
        /\ dproj_modifications' = r.mods
  /\ IF dry_run
     THEN pc' = "done" /\ result' = "ok"
     ELSE pc' = "res_backup" /\ UNCHANGED result
  /\ UNCHANGED <<disk, err, args, warned, res_state, new_version, dproj_current_version,
                 saves, prev, at_start>>

\* save without the shutil.copy2 of line 679
ResBackupSkipped ==
  /\ pc = "res_backup"
  /\ pc' = "res_write"
  /\ UNCHANGED <<res_disk, res_bak, dproj_disk, dproj_bak, result, err, args, warned,
                 res_state, new_version, dproj_state, saves, prev, at_start>>

\* ResVersionBumper.save: shutil.copy2(res_file, res_file + ".bak")
ResBackup ==
  /\ pc = "res_backup"
  /\ res_bak' = [exists |-> TRUE, bytes |-> res_disk]
  /\ pc' = "res_write"
  /\ UNCHANGED <<res_disk, dproj_disk, dproj_bak, result, err, args, warned, res_state,
                 new_version, dproj_state, saves, prev, at_start>>

\* ResVersionBumper.save: f.write(self.data)
ResWrite ==
  /\ pc = "res_write"
  /\ res_disk' = data
  /\ prev' = [valid |-> TRUE, input |-> res_disk, old |-> current_version.build,
              new |-> new_version.build]
  /\ pc' = "dproj_backup"
  /\ UNCHANGED <<res_bak, dproj_disk, dproj_bak, result, err, args, warned, res_state,
                 new_version, dproj_state, saves, at_start>>

\* DprojVersionBumper.save: shutil.copy2(dproj_file, dproj_file + ".bak")
DprojBackup ==
  /\ pc = "dproj_backup"
  /\ dproj_bak' = [exists |-> TRUE, bytes |-> dproj_disk]
  /\ pc' = "dproj_write"
  /\ UNCHANGED <<res_disk, res_bak, dproj_disk, result, err, args, warned, res_state,
                 new_version, dproj_state, saves, prev, at_start>>

\* DprojVersionBumper.save: f.write(self.content); bump returns True
DprojWrite ==
  /\ pc = "dproj_write"
  /\ dproj_disk' = content
  /\ saves' = saves + 1
  /\ result' = "ok"
  /\ pc' = "done"
  /\ UNCHANGED <<res_disk, res_bak, dproj_bak, err, args, warned, res_state, new_version,
                 dproj_state, prev, at_start>>

Next ==
  \/ \E nb \in Targets, dr \in BOOLEAN : StartRun(nb, dr)
  \/ ResLoad
  \/ FindBinaryVersion
  \/ FindStringVersionStep
  \/ DprojAnalyze
  \/ CalcNewVersion
  \/ UpdateBinaryVersionStep
  \/ UpdateStringVersionStep
  \/ DprojUpdate
  \/ ResBackup
  \/ ResWrite
  \/ DprojBackup
  \/ DprojWrite

Spec == Init /\ [][Next]_vars

\* ------------------------------------------------- observers for the claims
\* the in-memory patch of the .res buffer is complete: res_disk still holds
\* the input of this invocation, data the patched output
ResPatched == pc = "dproj_update"

SameWidth == Len(Str(current_version.build)) = Len(Str(new_version.build))

ByteDelta == 2 * (Len(Str(new_version.build)) - Len(Str(current_version.build)))

\* the smallest multiple of 4 that is >= n
RoundUp4(n) == CHOOSE m \in n..(n + 3) : m % 4 = 0

\* offsets of all occurrences of the byte pattern p in d
Occ(d, p) == {i \in 0..(Len(d) - Len(p)) : \A j \in 1..Len(p) : d[i + j] = p[j]}

OldFull == Utf16(VersionStr(current_version))

NewFull == Utf16(VersionStr(new_version))

\* the four files as the current invocation found them
DiskAtStart == <<at_start.res, at_start.res_bak, at_start.dproj, at_start.dproj_bak>>

HasSignature(d) == Occ(d, VS_FFI_SIGNATURE) # {}

HasMarker(d) == Occ(d, Utf16(KeyFileVersion)) # {}

\* the version a fresh analysis reads from the text side and the binary side
TextVersion(d) == FromString(FindStringVersion(d).text).v

BinaryVersion(d) == BinaryVersionAt(d, Min(Occ(d, VS_FFI_SIGNATURE)))

\* start of the block whose key is key (its header is the 6 bytes before the key)
KeyedStart(d, key) == Min(Occ(d, Utf16(key))) - 6

KeysAfterFileVersion == {ExtraKey(i) : i \in 1..4} \cup {KeyVarFileInfo}

PresentAfter(d) == {k \in KeysAfterFileVersion : Occ(d, Utf16(k)) # {}}

\* start of the entry that follows the FileVersion entry
NextAfterFileVersion(d) == Min({KeyedStart(d, k) : k \in PresentAfter(d)})

\* every length field that encloses the version string equals its span
LengthsConsistent(d) ==
  LET fv == KeyedStart(d, KeyFileVersion)
      vfi == KeyedStart(d, KeyVarFileInfo)
  IN /\ HasMarker(d)
     /\ 64 + U16At(d, 32) = Len(d)
     /\ 64 + U16At(d, 64) = Len(d)
     /\ RoundUp4(156 + U16At(d, 156)) = vfi
     /\ RoundUp4(192 + U16At(d, 192)) = vfi
     /\ RoundUp4(fv + U16At(d, fv)) = NextAfterFileVersion(d)

\* every block and entry after the FileVersion value starts on a multiple of 4
BlocksAligned(d) == \A k \in PresentAfter(d) : KeyedStart(d, k) % 4 = 0

\* offsets of the bytes that differ between two buffers of equal length
DiffOffsets(a, b) == {i \in 0..(Len(a) - 1) : a[i + 1] # b[i + 1]}

\* offsets of the build half-word and of the FileVersion build digits in the input
PrimaryOffsets ==
  LET bo == BuildStrOffset(res_disk, file_version_string_offset, 0)
  IN {file_version_ls_offset + 2, file_version_ls_offset + 3}
       \cup bo..(bo + 2 * Len(Str(current_version.build)) - 1)

\* offsets inside an occurrence of "." old build "." in the input
DelimitedOffsets ==
  LET pat == Utf16(<<Dot>> \o Str(current_version.build) \o <<Dot>>)
  IN UNION {p..(p + Len(pat) - 1) : p \in Occ(res_disk, pat)}

\* ------------------------------------------------------------------ claims
\* C1: after a differing-width patch of a buffer holding the old full version
\* string k >= 2 times, all k occurrences read the new version and no
\* occurrence of the old full version string remains.
C1_AllOccurrencesUpdated ==
  (ResPatched /\ ~SameWidth /\ Cardinality(Occ(res_disk, OldFull)) >= 2)
    => /\ Occ(data, OldFull) = {}
       /\ Cardinality(Occ(data, NewFull)) = Cardinality(Occ(res_disk, OldFull))

\* C2: patching build 9 -> 10 and the result back 10 -> 9 yields a buffer
\* byte-identical to the original.
C2_RoundTripAcrossDigitBoundary ==
  (ResPatched /\ prev.valid /\ prev.old = 9 /\ prev.new = 10
     /\ current_version.build = 10 /\ new_version.build = 9)
    => data = prev.input

\* C3: patching a -> b and back b -> a, a and b of the same digit count,
\* yields a buffer byte-identical to the original.
C3_RoundTripSameWidth ==
  (ResPatched /\ prev.valid /\ Len(Str(prev.old)) = Len(Str(prev.new))
     /\ current_version.build = prev.new /\ new_version.build = prev.old)
    => data = prev.input

\* C4 as stated: a same-width patch keeps the length and changes only the
\* binary build half-word and the build digits of the FileVersion value.
C4_OnlyPrimaryBytesDiffer ==
  (ResPatched /\ SameWidth)
    => /\ Len(data) = Len(res_disk)
       /\ DiffOffsets(res_disk, data) \subseteq PrimaryOffsets

\* C4 amended: a same-width patch keeps the length and changes only the
\* binary build half-word, the build digits of the FileVersion value and
\* bytes inside occurrences of "." old build "." elsewhere in the buffer.
C4_OnlyBuildPatternBytesDiffer ==
  (ResPatched /\ SameWidth)
    => /\ Len(data) = Len(res_disk)
       /\ DiffOffsets(res_disk, data) \subseteq (PrimaryOffsets \cup DelimitedOffsets)

C4_Witness ==
  /\ ResPatched /\ SameWidth
  /\ current_version.build # new_version.build
  /\ DiffOffsets(res_disk, data) \ PrimaryOffsets # {}

C6_LengthFieldsConsistent ==
  (ResPatched /\ ~SameWidth /\ LengthsConsistent(res_disk)) => LengthsConsistent(data)

\* C7: if every block of the input starts on a multiple of 4, every block
\* and entry after the edit point still does after any patch.
C7_AlignmentPreserved ==
  (ResPatched /\ BlocksAligned(res_disk)) => BlocksAligned(data)

\* C8: the text version of the output has the major, minor and revision of
\* the input's, and the binary major, minor and revision are unchanged.
C8_OnlyBuildMutated ==
  ResPatched
    => LET ti == TextVersion(res_disk)
           to == TextVersion(data)
           bi == BinaryVersion(res_disk)
           bo == BinaryVersion(data)
       IN /\ to.major = ti.major /\ to.minor = ti.minor /\ to.release = ti.release
          /\ bo.major = bi.major /\ bo.minor = bi.minor /\ bo.release = bi.release

\* C9: when binary and text agree in the input, after a patch to build B
\* both decode to (major, minor, B, revision).
C9_EncodingsAgreeAfterPatch ==
  (ResPatched /\ BinaryVersion(res_disk) = TextVersion(res_disk))
    => /\ BinaryVersion(data) = [TextVersion(res_disk) EXCEPT !.build = new_version.build]
       /\ TextVersion(data) = [TextVersion(res_disk) EXCEPT !.build = new_version.build]

\* the run has changed neither the loaded buffer nor the .res file or its backup
ResUntouched ==
  /\ data \in {<<>>, at_start.res}
  /\ res_disk = at_start.res /\ res_bak = at_start.res_bak

\* C10: without the signature the run ends with the signature error, with
\* the signature but without the marker it ends with the marker error, a
\* different one; in both the buffer is not mutated and neither the .res
\* file nor a backup is written. (Each implication is written with its
\* conclusion first: "conclusion, or else the precondition is false".)
C10_MissingSignatureOrMarker ==
  /\ [](\/ /\ ResUntouched
            /\ pc = "done" => (result = "fail" /\ err = "SignatureNotFound")
         \/ HasSignature(at_start.res))
  /\ [](\/ /\ ResUntouched
            /\ pc = "done" => (result = "fail" /\ err = "MarkerNotFound")
         \/ ~HasSignature(at_start.res)
         \/ HasMarker(at_start.res))
  /\ [][(res_disk' = res_disk /\ res_bak' = res_bak)
          \/ (HasSignature(res_disk) /\ HasMarker(res_disk))]_vars

C10_Witness ==
  /\ pc = "done" /\ err = "MarkerNotFound" /\ result = "fail"
  /\ HasSignature(at_start.res) /\ ~HasMarker(at_start.res)
  /\ data = res_disk /\ res_disk = at_start.res /\ res_bak = at_start.res_bak

\* C11: when the target build exceeds 65535 (explicit, or 65535 + 1 by auto
\* increment) the patch ends with the OutOfRange error; the in-memory buffer
\* still equals the loaded file, no modification is recorded, and neither an
\* artifact nor a backup is written.
C11_OutOfRangeBeforeMutation ==
  /\ [](new_version.build > 65535
          => /\ pc \in {"update_binary", "done"}
             /\ data = at_start.res
             /\ modifications = <<>>
             /\ disk = DiskAtStart
             /\ pc = "done" => (result = "crash" /\ err = "OutOfRange"))
  /\ [][new_version.build > 65535 => UNCHANGED disk]_vars

C11_Witness ==
  /\ pc = "done" /\ err = "OutOfRange" /\ result = "crash"
  /\ new_build = NoBuild /\ current_version.build = 65535 /\ new_version.build = 65536
  /\ data = res_disk /\ modifications = <<>> /\ disk = DiskAtStart

\* C12: in a run with dry_run set no backup or save step is ever reached and
\* the four files stay as the run found them; when the run ends, the binary
\* and the text patch have been applied in memory and both modification
\* lists are filled.
C12_DryRunWritesNothing ==
  /\ [](dry_run
          => /\ disk = DiskAtStart
             /\ pc \notin {"res_backup", "res_write", "dproj_backup", "dproj_write"}
             /\ (pc = "done" /\ result = "ok")
                  => /\ U16At(data, file_version_ls_offset + 2) = new_version.build
                     /\ Len(modifications) >= 2
                     /\ Len(dproj_modifications) >= 1
                     /\ (new_version.build # current_version.build => data # res_disk))
  /\ [][dry_run => UNCHANGED disk]_vars

C12_Witness ==
  /\ dry_run /\ pc = "done" /\ result = "ok"
  /\ Len(modifications) >= 2 /\ Len(dproj_modifications) >= 1
  /\ data # res_disk /\ content # dproj_disk
  /\ disk = DiskAtStart /\ res_bak = NoFile /\ dproj_bak = NoFile

\* both analyses and every in-memory patch step of the run ended without error
PatchedWithoutError ==
  /\ err = "none" /\ result = "none"
  /\ current_version # NoVersion /\ dproj_current_version # NoVersion
  /\ Len(modifications) >= 2 /\ Len(dproj_modifications) >= 1

\* C13: an artifact file is overwritten only in its write step, reached after
\* both analyses and all patch steps ended without error and after its backup
\* was written with the pre-edit bytes; in every state an artifact that
\* differs from its content at the start of the run has a backup holding
\* exactly that content.
C13_BackupBeforeOverwrite ==
  /\ [](res_disk # at_start.res
          => res_bak = [exists |-> TRUE, bytes |-> at_start.res])
  /\ [](dproj_disk # at_start.dproj
          => dproj_bak = [exists |-> TRUE, bytes |-> at_start.dproj])
  /\ [](pc \in {"res_backup", "res_write", "dproj_backup", "dproj_write"}
          => PatchedWithoutError)
  /\ [](pc = "update_string"
          => UpdateStringVersion(data, modifications, file_version_string_offset,
                                 current_version, new_version).ok)
  /\ [][res_disk' # res_disk
          => (pc = "res_write" /\ res_bak = [exists |-> TRUE, bytes |-> res_disk])]_vars
  /\ [][dproj_disk' # dproj_disk
          => (pc = "dproj_write"
              /\ dproj_bak = [exists |-> TRUE, bytes |-> dproj_disk])]_vars

C13_Witness ==
  /\ pc = "dproj_backup"
  /\ res_disk # at_start.res /\ res_disk = data
  /\ res_bak = [exists |-> TRUE, bytes |-> at_start.res]
  /\ dproj_disk = at_start.dproj /\ dproj_bak = at_start.dproj_bak

\* C14: after a differing-width patch the wLength of the entry that holds
\* the version string (6 bytes before the located FileVersion key) grew by
\* byteDelta, its wValueLength by byteDelta / 2, and each enclosing length
\* field (header DataSize, VS_VERSIONINFO, StringFileInfo, StringTable) by
\* alignedDelta.
C14_EntryLengthFieldUnits ==
  (ResPatched /\ ~SameWidth)
    => LET fv == KeyedStart(res_disk, KeyFileVersion)
       IN /\ U16At(data, fv) = U16At(res_disk, fv) + ByteDelta
          /\ U16At(data, fv + 2) = U16At(res_disk, fv + 2) + ByteDelta \div 2
          /\ \A off \in {resource_size_offsets[1], resource_size_offsets[2],
                          sfi_offset, st_offset} :
                U16At(data, off) = U16At(res_disk, off) + RoundUp4(ByteDelta)

\* offsets of the buffer covered by the records of the .res modification list
RecordedOffsets ==
  UNION {LET r == modifications[i]
             width == IF r.type_desc = "FileVersion string (Build)"
                      THEN 2 * Len(Str(new_version.build))
                      ELSE 2
         IN r.location..(r.location + width - 1) : i \in 1..Len(modifications)}

\* number of records of the .res modification list for a version string
StringRecords ==
  Cardinality({i \in 1..Len(modifications) :
                 modifications[i].type_desc = "FileVersion string (Build)"})

\* C15: after a patch every changed field has a record: for a same-width
\* patch every byte that differs from the input lies inside the span of a
\* record; for a resizing patch there is a version-string record for every
\* occurrence of the version string that was rewritten to the new version.
C15_LedgerCoversEveryChange ==
  ResPatched
    => /\ SameWidth => DiffOffsets(res_disk, data) \subseteq RecordedOffsets
       /\ ~SameWidth => StringRecords >= Cardinality(Occ(data, NewFull))
                                           - Cardinality(Occ(res_disk, NewFull))

\* the two artifacts disagree in some component of the version
VersionMismatch ==
  /\ new_version # NoVersion
  /\ current_version # dproj_current_version

\* C16: whenever the .dproj version differs from the .res version in major,
\* minor, build or release, the run warns, takes the .res version as the
\* basis of the new version and does not fail; after a successful saving
\* run both files carry the target build.
C16_MismatchWarnsAndContinues ==
  /\ VersionMismatch => warned
  /\ VersionMismatch
       => new_version = [current_version EXCEPT
                           !.build = IF new_build = NoBuild THEN current_version.build + 1
                                     ELSE new_build]
  /\ (VersionMismatch /\ pc = "done" /\ new_version.build <= 65535) => result = "ok"
  /\ (VersionMismatch /\ pc = "done" /\ result = "ok" /\ ~dry_run)
       => /\ BinaryVersion(res_disk).build = new_version.build
          /\ TextVersion(res_disk).build = new_version.build
          /\ FromString(FileVersionMatch(dproj_disk)).v.build = new_version.build

\* C17: patching the buffer that an earlier patch to build B produced to the
\* same B again changes no byte and not the length, after the binary step
\* and after the string step, whether the earlier patch resized or not (and
\* when the second analysis fails the buffer is the loaded one as well).
C17_SecondPatchChangesNothing ==
  (prev.valid /\ new_build = prev.new)
    => /\ data \in {<<>>, res_disk}
       /\ pc \in {"update_string", "dproj_update"}
            => /\ data = res_disk
               /\ current_version.build = prev.new
               /\ new_version = current_version

C17_Witness ==
  /\ ResPatched /\ prev.valid /\ new_build = prev.new
  /\ Len(Str(prev.old)) # Len(Str(prev.new))
  /\ Len(prev.input) # Len(res_disk)
  /\ Len(modifications) >= 2
  /\ data = res_disk

====
